---- MODULE Spec2Model ----
(***************************************************************************)
(* Location search pipeline: the geocode client (GeocodingService), the    *)
(* search-state controller (the useLocationSearch hook), and the saved     *)
(* locations of the LocationSearch component.                              *)
(*                                                                         *)
(* Texts are sequences of one-character strings, so that length, trimming  *)
(* and containment are computed as the code computes them.                 *)
(***************************************************************************)
EXTENDS Integers, Sequences, FiniteSets, TLC

VARIABLES
    \* ---- search-state controller (useLocationSearch) ----
    searchQuery,      \* useState('') : raw query text
    debouncedQuery,   \* useState('') : committed (debounced) query text
    searchError,      \* useState(null) : the failure slot
    debounceRef,      \* useRef() : handle of the last scheduled timer, 0 = undefined
    timers,           \* the host's pending setTimeout timers: records [id, query]
    nextTimerId,      \* the host's next timer handle
    cache,            \* react-query cache, one entry per query key
    nOps,             \* history: the number of user operations made
                      \* (setSearchQuery, clearResults, manualSearch)
    ops,              \* history: the last two user operations, in order
    commits,          \* history: the texts committed by debounce timer callbacks
    manual,           \* the manualSearch calls made, in order:
                      \* [text, phase, outcome, result, requests, overlaps]
    \* ---- one call of the geocode client (GeocodingService) ----
    call,             \* [op, text, phase, outcome, result, requests, validation,
                      \*  hasOnError, callbacks]
    \* ---- saved locations (the LocationSearch component) ----
    savedLocations,   \* useState : the saved places, in order
    storage,          \* localStorage item 'weather-saved-locations'
    toggles           \* history: the toggleSavedLocation calls: [location, before]

savedVars == <<savedLocations, storage, toggles>>

vars == <<searchQuery, debouncedQuery, searchError, debounceRef, timers,
          nextTimerId, cache, nOps, ops, commits, manual, call, savedVars>>

ctlVars == <<searchQuery, debouncedQuery, searchError, debounceRef, timers,
             nextTimerId, cache, nOps, ops, commits, manual>>

(***************************************************************************)
(* Bounds of the model                                                     *)
(***************************************************************************)
\* longest text given to the client's entry points
MaxTextLen == 3
\* longest list in an upstream response body
MaxBodyLen == 1
\* number of user operations (query updates, clears) in one session
MaxOps == 2
\* number of manualSearch calls in one session
MaxManual == 2
MaxListLen == 11
MaxPlaces == 3
MaxToggles == 2

(***************************************************************************)
(* Texts                                                                   *)
(***************************************************************************)
\* the absent argument (null / undefined): differs from every text
Absent == <<"undefined">>

Whitespace == {" "}

Alphabet == {"a", "b", " "}

RECURSIVE TextsOfLen(_)
TextsOfLen(n) ==
    IF n = 0 THEN {<<>>}
    ELSE {Append(t, c) : t \in TextsOfLen(n - 1), c \in Alphabet}

Texts == UNION {TextsOfLen(n) : n \in 0..MaxTextLen}

\* String.prototype.trim: drops leading and trailing whitespace
RECURSIVE TrimStart(_)
TrimStart(s) ==
    IF s # <<>> /\ Head(s) \in Whitespace THEN TrimStart(Tail(s)) ELSE s

RECURSIVE TrimEnd(_)
TrimEnd(s) ==
    IF s # <<>> /\ s[Len(s)] \in Whitespace
    THEN TrimEnd(SubSeq(s, 1, Len(s) - 1))
    ELSE s

trim(s) == TrimEnd(TrimStart(s))

\* String.prototype.includes
Contains(s, t) ==
    \E i \in 0..(Len(s) - Len(t)) : SubSeq(s, i + 1, i + Len(t)) = t

\* a slice that keeps everything
Slice_Unbounded(s, n) == s

\* Array.prototype.slice(0, n)
Slice(s, n) == SubSeq(s, 1, IF Len(s) < n THEN Len(s) ELSE n)

\* JavaScript truthiness of a string-typed argument: '' , null, undefined are falsy
Falsy(s) == s = Absent \/ s = <<>>

(***************************************************************************)
(* Failures                                                                *)
(***************************************************************************)
\* no failure (null)
NoError == [kind |-> "none", code |-> "", message |-> <<>>]

\* `GeocodingError` is declared as an interface only: the declaration is
\* erased from the emitted JavaScript and no value of that name exists.
GeocodingErrorIsValue == FALSE

\* what evaluating the identifier GeocodingError raises when it has no value
ReferenceError ==
    [kind |-> "ReferenceError", code |-> "",
     message |-> <<"GeocodingError is not defined">>]

\* the expression  new GeocodingError({message, code})
NewGeocodingError(code, message) ==
    IF GeocodingErrorIsValue
    THEN [kind |-> "GeocodingError", code |-> code, message |-> message]
    ELSE ReferenceError

\* outcomes of the expression  error instanceof GeocodingError
\*   "yes" / "no", or "raise" when the right operand cannot be evaluated
InstanceOfGeocodingError(error) ==
    IF ~GeocodingErrorIsValue THEN "raise"
    ELSE IF error.kind = "GeocodingError" THEN "yes" ELSE "no"

\* what fetch() raises on a transport failure
FetchFailure == [kind |-> "FetchError", code |-> "", message |-> <<"Failed to fetch">>]

\* what response.json() raises on a body that is not JSON
JsonFailure == [kind |-> "SyntaxError", code |-> "", message |-> <<"Unexpected token">>]

(***************************************************************************)
(* The upstream HTTP API                                                   *)
(***************************************************************************)
\* one record of the provider's JSON array for the query q
UpstreamRecord(q, i) ==
    [name |-> q,
     region |-> IF i = 1 THEN <<>> ELSE <<"r">>,
     country |-> <<"c">>,
     lat |-> i, lon |-> i + 1]

UpstreamList(q, n) == [i \in 1..n |-> UpstreamRecord(q, i)]

Statuses == {200, 401, 429, 500}

\* Response.ok
ResponseOk(o) == o.status >= 200 /\ o.status <= 299

\* every outcome of one GET for the query q: fetch raises, or a response
\* with a status and, when the status is a success (the only case in which
\* the body is read), a body: not JSON, JSON that is not an array, an array
Outcomes(q) ==
    {[threw |-> TRUE, status |-> 0, body |-> "none", items |-> <<>>]}
    \cup {[threw |-> FALSE, status |-> s, body |-> "none", items |-> <<>>] :
            s \in {x \in Statuses : x < 200 \/ x > 299}}
    \cup {[threw |-> FALSE, status |-> s, body |-> b, items |-> <<>>] :
            s \in {x \in Statuses : x >= 200 /\ x <= 299},
            b \in {"unparseable", "nonarray"}}
    \cup {[threw |-> FALSE, status |-> s, body |-> "array", items |-> UpstreamList(q, n)] :
            s \in {x \in Statuses : x >= 200 /\ x <= 299}, n \in 0..MaxBodyLen}

(***************************************************************************)
(* Geocode client: GeocodingService                                        *)
(***************************************************************************)
Ok(list) == [tag |-> "ok", value |-> list, error |-> NoError]

Throw(e) == [tag |-> "throw", value |-> <<>>, error |-> e]

\* results.map(...) of geocodeLocation: upstream record -> GeocodingResult
ToGeocodingResult(r) ==
    [id |-> ToString(r.lat) \o "-" \o ToString(r.lon),
     name |-> r.name,
     region |-> r.region,
     country |-> r.country,
     lat |-> r.lat,
     lon |-> r.lon,
     formatted_address |->
        r.name \o <<",", " ">>
        \o (IF r.region # <<>> THEN r.region \o <<",", " ">> ELSE <<>>)
        \o r.country]

MapResults(items) == [i \in 1..Len(items) |-> ToGeocodingResult(items[i])]

\* a guard of geocodeLocation stricter than validateLocationInput
InputRejected_TooStrict(locationString) ==
    Falsy(locationString) \/ Len(trim(locationString)) < 4

\* the guard at the head of geocodeLocation
InputRejected(locationString) ==
    Falsy(locationString) \/ Len(trim(locationString)) < 2

\* the body of geocodeLocation's try block, for the transport outcome o
TryBlock(cleanedInput, o) ==
    IF o.threw THEN Throw(FetchFailure)
    ELSE IF ~ResponseOk(o) THEN
        IF o.status = 401
        THEN Throw(NewGeocodingError("API_ERROR",
                 <<"Invalid API key. Please check your configuration.">>))
        ELSE IF o.status = 429
        THEN Throw(NewGeocodingError("API_ERROR",
                 <<"Too many requests. Please try again later.">>))
        ELSE Throw(NewGeocodingError("API_ERROR",
                 <<"Failed to fetch location data">>))
    ELSE IF o.body = "unparseable" THEN Throw(JsonFailure)
    ELSE IF o.body # "array" \/ Len(o.items) = 0
    THEN Throw(NewGeocodingError("NO_RESULTS",
             <<"No locations found for \"">> \o cleanedInput
             \o <<"\". Try a different search term.">>))
    ELSE Ok(MapResults(o.items))

\* geocodeLocation's catch block, for the value the try block raised
CatchBlock(error) ==
    CASE InstanceOfGeocodingError(error) = "raise" -> Throw(ReferenceError)
      [] InstanceOfGeocodingError(error) = "yes" -> Throw(error)
      [] OTHER -> Throw(NewGeocodingError("NETWORK_ERROR",
                     <<"Network error. Please check your connection and try again.">>))

\* geocodeLocation(locationString), where the request (if one is issued)
\* has the outcome o
geocodeLocation(locationString, o) ==
    IF InputRejected(locationString)
    THEN Throw(NewGeocodingError("INVALID_INPUT",
             <<"Location must be at least 2 characters long">>))
    ELSE LET r == TryBlock(trim(locationString), o)
         IN  IF r.tag = "throw" THEN CatchBlock(r.error) ELSE r

\* a call of geocodeLocation reaches fetch()
IssuesRequest(locationString) == ~InputRejected(locationString)

\* the guard of getSuggestions, one character too lenient
TooShortForSuggestions_OffByOne(partialInput) == Len(partialInput) < 2

\* the guard at the head of getSuggestions
TooShortForSuggestions(partialInput) == Len(partialInput) < 3

\* getSuggestions without its try / catch
getSuggestions_NoCatch(partialInput, o) ==
    IF TooShortForSuggestions(partialInput) THEN Ok(<<>>)
    ELSE geocodeLocation(partialInput, o)

\* getSuggestions(partialInput), where the request (if one is issued) has
\* the outcome o
getSuggestions(partialInput, o) ==
    IF TooShortForSuggestions(partialInput) THEN Ok(<<>>)
    ELSE LET r == geocodeLocation(partialInput, o)
         IN  IF r.tag = "throw" THEN Ok(<<>>) ELSE r

(***************************************************************************)
(* One call of the geocode client, in two steps: the synchronous part up   *)
(* to fetch(), and the continuation after the response.                    *)
(***************************************************************************)
\* placeholder for "no request was issued"
NoOutcome == [threw |-> FALSE, status |-> 0, body |-> "none", items |-> <<>>]

\* placeholder for "validateLocationInput was not called"
NoValidation == [isValid |-> FALSE, error |-> <<>>]

IdleCall ==
    [op |-> "none", text |-> <<>>, phase |-> "idle", outcome |-> NoOutcome,
     result |-> Ok(<<>>), requests |-> 0, validation |-> NoValidation,
     hasOnError |-> FALSE, callbacks |-> <<>>]

\* geocodingService.geocodeLocation(text) is called
SearchStart(text) ==
    /\ call.phase = "idle"
    /\ call' = IF IssuesRequest(text)
               THEN [IdleCall EXCEPT !.op = "search", !.text = text,
                                     !.phase = "awaiting", !.requests = 1]
               ELSE [IdleCall EXCEPT !.op = "search", !.text = text,
                                     !.phase = "done",
                                     !.result = geocodeLocation(text, NoOutcome)]
    /\ UNCHANGED <<ctlVars, savedVars>>

\* the request of a pending geocodeLocation call completes with outcome o
SearchRespond(o) ==
    /\ call.op = "search"
    /\ call.phase = "awaiting"
    /\ call' = [call EXCEPT !.phase = "done", !.outcome = o,
                            !.result = geocodeLocation(call.text, o)]
    /\ UNCHANGED <<ctlVars, savedVars>>

\* getSuggestions reaches geocodeLocation, and geocodeLocation reaches fetch()
SuggestIssuesRequest(text) ==
    /\ ~TooShortForSuggestions(text)
    /\ IssuesRequest(text)

\* geocodingService.getSuggestions(text) is called
SuggestStart(text) ==
    /\ call.phase = "idle"
    /\ call' = IF SuggestIssuesRequest(text)
               THEN [IdleCall EXCEPT !.op = "suggest", !.text = text,
                                     !.phase = "awaiting", !.requests = 1]
               ELSE [IdleCall EXCEPT !.op = "suggest", !.text = text,
                                     !.phase = "done",
                                     !.result = getSuggestions(text, NoOutcome)]
    /\ UNCHANGED <<ctlVars, savedVars>>

\* the request of a pending getSuggestions call completes with outcome o
SuggestRespond(o) ==
    /\ call.op = "suggest"
    /\ call.phase = "awaiting"
    /\ call' = [call EXCEPT !.phase = "done", !.outcome = o,
                            !.result = getSuggestions(call.text, o)]
    /\ UNCHANGED <<ctlVars, savedVars>>

\* the caller has consumed the result; the client is ready for another call
CallReturn ==
    /\ call.phase = "done"
    /\ call' = IdleCall
    /\ UNCHANGED <<ctlVars, savedVars>>

(***************************************************************************)
(* validateLocationInput                                                   *)
(***************************************************************************)
MaxLocationLength == 100

UpperCase == <<"A","B","C","D","E","F","G","H","I","J","K","L","M",
               "N","O","P","Q","R","S","T","U","V","W","X","Y","Z">>

LowerCase == <<"a","b","c","d","e","f","g","h","i","j","k","l","m",
               "n","o","p","q","r","s","t","u","v","w","x","y","z">>

Digits == {"0","1","2","3","4","5","6","7","8","9"}

\* case folding of one character (the regular expressions' i flag)
Lower(c) ==
    IF \E k \in 1..26 : UpperCase[k] = c
    THEN LowerCase[CHOOSE k \in 1..26 : UpperCase[k] = c]
    ELSE c

LowerText(s) == [i \in 1..Len(s) |-> Lower(s[i])]

\* the class \w
WordChar(c) ==
    \/ \E k \in 1..26 : LowerCase[k] = Lower(c)
    \/ c \in Digits
    \/ c = "_"

\* /<script/i
MatchesScriptTag(s) ==
    Contains(LowerText(s), <<"<","s","c","r","i","p","t">>)

\* /javascript:/i
MatchesJavascriptScheme(s) ==
    Contains(LowerText(s), <<"j","a","v","a","s","c","r","i","p","t",":">>)

\* /on\w+\s*=/i
MatchesEventHandler(s) ==
    \E i \in 1..Len(s) : \E j \in (i + 2)..Len(s) : \E k \in (j + 1)..Len(s) :
        /\ Lower(s[i]) = "o"
        /\ Lower(s[i + 1]) = "n"
        /\ \A m \in (i + 2)..j : WordChar(s[m])
        /\ \A m \in (j + 1)..(k - 1) : s[m] \in Whitespace
        /\ s[k] = "="

\* /data:/i
MatchesDataScheme(s) ==
    Contains(LowerText(s), <<"d","a","t","a",":">>)

Valid == [isValid |-> TRUE, error |-> <<>>]

Invalid(error) == [isValid |-> FALSE, error |-> error]

\* validateLocationInput with the upper length test off by one
validateLocationInput_Boundary(input) ==
    IF Falsy(input) THEN Invalid(<<"Location is required">>)
    ELSE LET trimmed == trim(input)
         IN  IF Len(trimmed) < 2
             THEN Invalid(<<"Location must be at least 2 characters long">>)
             ELSE IF Len(trimmed) >= MaxLocationLength
             THEN Invalid(<<"Location must be less than 100 characters">>)
             ELSE IF \/ MatchesScriptTag(trimmed)
                     \/ MatchesJavascriptScheme(trimmed)
                     \/ MatchesEventHandler(trimmed)
                     \/ MatchesDataScheme(trimmed)
             THEN Invalid(<<"Invalid characters in location">>)
             ELSE Valid

validateLocationInput(input) ==
    IF Falsy(input) THEN Invalid(<<"Location is required">>)
    ELSE LET trimmed == trim(input)
         IN  IF Len(trimmed) < 2
             THEN Invalid(<<"Location must be at least 2 characters long">>)
             ELSE IF Len(trimmed) > MaxLocationLength
             THEN Invalid(<<"Location must be less than 100 characters">>)
             ELSE IF \/ MatchesScriptTag(trimmed)
                     \/ MatchesJavascriptScheme(trimmed)
                     \/ MatchesEventHandler(trimmed)
                     \/ MatchesDataScheme(trimmed)
             THEN Invalid(<<"Invalid characters in location">>)
             ELSE Valid

Repeat(c, n) == [i \in 1..n |-> c]

\* texts whose trimmed length is just below, at and just above the limit,
\* bare and padded with blanks
LongTexts ==
    LET bare == {Repeat("a", n) :
                    n \in (MaxLocationLength - 1)..(MaxLocationLength + 1)}
    IN  bare \cup {<<" ">> \o t \o <<" ">> : t \in bare}

\* texts that one of the four patterns matches
DangerousSamples ==
    {<<"<","s","c","r","i","p","t">>,
     <<"a","<","S","c","R","i","P","t",">">>,
     <<"j","a","v","a","s","c","r","i","p","t",":">>,
     <<"J","A","V","A","S","C","R","I","P","T",":","x">>,
     <<"o","n","l","o","a","d","=">>,
     <<"O","N","C","l","i","c","k"," "," ","=","x">>,
     <<"o","n","_","1","=">>,
     <<"L","o","n","d","o","n","=","x">>,
     <<"B","o","n","n"," ","=">>,
     <<"d","a","t","a",":">>,
     <<"x","D","a","T","a",":","y">>}

\* near misses: texts of valid length that none of the four patterns matches
SafeSamples ==
    {<<"s","c","r","i","p","t">>,
     <<"<","s","c","r","i","p"," ","t">>,
     <<"j","a","v","a","s","c","r","i","p","t">>,
     <<"j","a","v","a","s","c","r","i","p","t"," ",":">>,
     <<"o","n","=">>,
     <<"o","n"," ","a","=">>,
     <<"o","n","l","o","a","d">>,
     <<"o","n","a","-","=">>,
     <<"n","o","x","=">>,
     <<"L","o","n","d","o","n">>,
     <<"d","a","t","a">>,
     <<"d","a","t","a"," ",":">>,
     <<"d","a","t",":">>}

\* the inputs validateLocationInput is called with
ValidateInputs ==
    Texts \cup {Absent} \cup LongTexts \cup DangerousSamples \cup SafeSamples
        \cup {<<" ">> \o t \o <<" ">> : t \in DangerousSamples}

(***************************************************************************)
(* handleManualLocationEntry(locationString, onSuccess, onError)           *)
(* How a call ends is a record: settled, the way the returned promise      *)
(* settles (Ok(<<>>) resolved, Throw(e) rejected with e), and callbacks,   *)
(* the callbacks invoked, in order, each with its argument.                *)
(***************************************************************************)
EntryEnds(settled, callbacks) == [settled |-> settled, callbacks |-> callbacks]

\* onError?.(error)
CallOnError(hasOnError, error) ==
    IF hasOnError THEN <<[name |-> "onError", arg |-> error]>> ELSE <<>>

\* the catch block, entered with the raised value `error`
EntryCatch(error, hasOnError) ==
    CASE InstanceOfGeocodingError(error) = "raise" ->
            EntryEnds(Throw(ReferenceError), <<>>)
      [] InstanceOfGeocodingError(error) = "yes" ->
            EntryEnds(Ok(<<>>), CallOnError(hasOnError, error))
      [] OTHER ->
            EntryEnds(Ok(<<>>),
                CallOnError(hasOnError,
                    NewGeocodingError("API_ERROR", <<"Failed to find location">>)))

\* a branch of the try block that builds a GeocodingError, reports it and
\* returns; when the identifier has no value, building it raises instead
EntryReports(code, message, hasOnError) ==
    IF GeocodingErrorIsValue
    THEN EntryEnds(Ok(<<>>), CallOnError(hasOnError, NewGeocodingError(code, message)))
    ELSE EntryCatch(ReferenceError, hasOnError)

\* the branch  if (!validation.isValid)
EntryInvalid(validation, hasOnError) ==
    EntryReports("INVALID_INPUT",
                 IF validation.error # <<>> THEN validation.error
                 ELSE <<"Invalid input">>,
                 hasOnError)

\* the call from  await geocodingService.geocodeLocation(locationString)  on,
\* the request (if one is issued) having the outcome o
EntryAfterSearch(locationString, hasOnError, o) ==
    LET r == geocodeLocation(locationString, o)
    IN  IF r.tag = "throw" THEN EntryCatch(r.error, hasOnError)
        ELSE IF Len(r.value) = 0
        THEN EntryReports("NO_RESULTS",
                 <<"No locations found for \"">> \o locationString \o <<"\"">>,
                 hasOnError)
        ELSE EntryEnds(Ok(<<>>), <<[name |-> "onSuccess", arg |-> r.value[1]]>>)

\* handleManualLocationEntry(text, onSuccess, onError) is called; onError is
\* given or not
EntryStart(text, hasOnError) ==
    /\ call.phase = "idle"
    /\ LET validation == validateLocationInput(text)
           entry == [IdleCall EXCEPT !.op = "entry", !.text = text,
                                     !.hasOnError = hasOnError,
                                     !.validation = validation]
           ends == IF ~validation.isValid
                   THEN EntryInvalid(validation, hasOnError)
                   ELSE EntryAfterSearch(text, hasOnError, NoOutcome)
       IN  call' = IF validation.isValid /\ IssuesRequest(text)
                   THEN [entry EXCEPT !.phase = "awaiting", !.requests = 1]
                   ELSE [entry EXCEPT !.phase = "done",
                                      !.result = ends.settled,
                                      !.callbacks = ends.callbacks]
    /\ UNCHANGED <<ctlVars, savedVars>>

\* the request of a pending handleManualLocationEntry call completes with
\* outcome o
EntryRespond(o) ==
    /\ call.op = "entry"
    /\ call.phase = "awaiting"
    /\ LET ends == EntryAfterSearch(call.text, call.hasOnError, o)
       IN  call' = [call EXCEPT !.phase = "done", !.outcome = o,
                               !.result = ends.settled,
                               !.callbacks = ends.callbacks]
    /\ UNCHANGED <<ctlVars, savedVars>>

\* the texts handleManualLocationEntry is called with
EntryInputs == Texts \cup {Absent} \cup DangerousSamples

\* geocodingService.validateLocationInput(text) is called and returns
ValidateCall(text) ==
    /\ call.phase = "idle"
    /\ call' = [IdleCall EXCEPT !.op = "validate", !.text = text,
                                !.phase = "done",
                                !.validation = validateLocationInput(text)]
    /\ UNCHANGED <<ctlVars, savedVars>>

(***************************************************************************)
(* Search-state controller: useLocationSearch                              *)
(***************************************************************************)
\* option defaults
minSearchLength == 3

maxResults == 10

\* the texts the user types into the query box
Queries == {<<"a","b">>, <<"a","b","c">>, <<"a","b","d">>}

\* the texts the user submits to manualSearch
ManualQueries == {<<>>, <<"a","b","c">>, <<"d","a","t","a",":">>}

\* the query keys of the cache: every value debouncedQuery takes
Keys == Queries \cup {<<>>}

\* ---- the host's timers ----
\* clearTimeout(handle): a no-op when the handle names no pending timer
ClearTimeout(ts, handle) == {t \in ts : t.id # handle}

\* setTimeout(() => setDebouncedQuery(query), debounceMs), returning handle id
SetTimeout(ts, id, query) == ts \cup {[id |-> id, query |-> query]}

\* updateDebouncedQuery without its clearTimeout
updateDebouncedQuery_NoCancel(ts, ref, id, query) == SetTimeout(ts, id, query)

\* updateDebouncedQuery that cancels the timer scheduled before the last one
updateDebouncedQuery_CancelStale(ts, ref, id, query) ==
    SetTimeout(IF ref # 0 THEN ClearTimeout(ts, ref - 1) ELSE ts, id, query)

\* the timers after updateDebouncedQuery(query), given debounceRef.current = ref
updateDebouncedQuery(ts, ref, id, query) ==
    SetTimeout(IF ref # 0 THEN ClearTimeout(ts, ref) ELSE ts, id, query)

\* ---- the react-query cache behind useQuery ----
\* an entry: no data yet (hasData = FALSE), or the data its queryFn last
\* resolved to; whether a fetch is in flight; whether the data is older
\* than staleTime
NoEntry == [hasData |-> FALSE, data |-> <<>>, fetching |-> FALSE, stale |-> FALSE]

\* the option enabled with its length test off by one
Enabled_OffByOne(key) == Len(key) > minSearchLength

\* option  enabled: debouncedQuery.length >= minSearchLength
Enabled(key) == Len(key) >= minSearchLength

\* the observer is pointed at `key`: an enabled query with no data or with
\* stale data is fetched, unless a fetch for that key is already in flight
Observe(c, key) ==
    IF Enabled(key) /\ ~c[key].fetching /\ (~c[key].hasData \/ c[key].stale)
    THEN [c EXCEPT ![key].fetching = TRUE]
    ELSE c

\* the cache after setDebouncedQuery(new) when the state was `old`:
\* setting a state to its current value does not re-render
setDebouncedQuery(c, old, new) == IF new = old THEN c ELSE Observe(c, new)

\* queryFn of the query keyed by `key`, whose request has the outcome o
queryFn(key, o) ==
    IF key = <<>> \/ Len(key) < minSearchLength THEN <<>>
    ELSE LET r == getSuggestions(key, o)
         IN  IF r.tag = "throw" THEN <<>> ELSE Slice(r.value, maxResults)

\* a queryFn that asks search directly and lets its failure reject the query
queryFnSettles_Surface(key, o) ==
    IF key = <<>> \/ Len(key) < minSearchLength THEN Ok(<<>>)
    ELSE LET r == geocodeLocation(key, o)
         IN  IF r.tag = "throw" THEN r ELSE Ok(Slice(r.value, maxResults))

\* how the promise of queryFn settles: its catch block returns [], so it
\* always resolves
queryFnSettles(key, o) == Ok(queryFn(key, o))

\* error: queryError of useQuery, for a fetch that settled as r
queryErrorOf(r) == IF r.tag = "throw" THEN r.error ELSE NoError

\* if (queryError && !searchError) setSearchError({...}): the failure slot
\* after a render in which the observed query has the error queryError
SurfaceQueryError(queryError, slot) ==
    IF queryError # NoError /\ slot = NoError
    THEN [kind |-> "object", code |-> "API_ERROR",
          message |-> <<"Failed to search locations">>]
    ELSE slot

\* a fetch whose result is stored as the result of whatever is observed on arrival
ResolveFetch_Unkeyed(c, key, active, data) ==
    LET c1 == [c EXCEPT ![key].fetching = FALSE]
    IN  [c1 EXCEPT ![active].hasData = TRUE, ![active].data = data,
                   ![active].stale = FALSE]

\* the cache after the fetch of the query keyed by `key` resolved to data;
\* `active` is the key the observer is on at that time
ResolveFetch(c, key, active, data) ==
    [c EXCEPT ![key] = [hasData |-> TRUE, data |-> data,
                        fetching |-> FALSE, stale |-> FALSE]]

\* data: searchResults = []  (the exposed result list)
searchResults ==
    IF cache[debouncedQuery].hasData THEN cache[debouncedQuery].data ELSE <<>>

\* isLoading: no data yet and a fetch in flight
isSearching ==
    ~cache[debouncedQuery].hasData /\ cache[debouncedQuery].fetching

\* the history after one more user operation: the operation, its text, and
\* whether a debounce timer was pending when it was made
LogOp(op, text) ==
    LET entry == [op |-> op, text |-> text, pending |-> timers # {}]
    IN  IF Len(ops) < 2 THEN Append(ops, entry) ELSE <<ops[2], entry>>

\* setSearchQuery(query) of the hook's return value
handleSetSearchQuery(query) ==
    /\ nOps < MaxOps
    /\ nOps' = nOps + 1
    /\ searchQuery' = query
    /\ searchError' = NoError
    /\ IF Len(query) >= minSearchLength
       THEN /\ timers' = updateDebouncedQuery(timers, debounceRef, nextTimerId, query)
            /\ debounceRef' = nextTimerId
            /\ nextTimerId' = nextTimerId + 1
            /\ UNCHANGED <<debouncedQuery, cache>>
       ELSE /\ debouncedQuery' = <<>>
            /\ cache' = setDebouncedQuery(cache, debouncedQuery, <<>>)
            /\ UNCHANGED <<timers, debounceRef, nextTimerId>>
    /\ ops' = LogOp("update", query)
    /\ UNCHANGED <<commits, manual, call, savedVars>>

\* the debounce delay of a pending timer has elapsed and its callback runs:
\* () => setDebouncedQuery(query)
TimerFire(t) ==
    /\ t \in timers
    /\ timers' = timers \ {t}
    /\ debouncedQuery' = t.query
    /\ cache' = setDebouncedQuery(cache, debouncedQuery, t.query)
    /\ commits' = Append(commits, t.query)
    /\ UNCHANGED <<searchQuery, searchError, debounceRef, nextTimerId, nOps, ops,
                   manual, call, savedVars>>

\* the request of the fetch in flight for `key` completes with outcome o
LookupRespond(key, o) ==
    /\ cache[key].fetching
    /\ LET r == queryFnSettles(key, o)
       IN  /\ cache' = IF r.tag = "ok"
                       THEN ResolveFetch(cache, key, debouncedQuery, r.value)
                       ELSE [cache EXCEPT ![key].fetching = FALSE]
           /\ searchError' = IF key = debouncedQuery
                             THEN SurfaceQueryError(queryErrorOf(r), searchError)
                             ELSE searchError
    /\ UNCHANGED <<searchQuery, debouncedQuery, debounceRef, timers,
                   nextTimerId, nOps, ops, commits, manual, call, savedVars>>

\* staleTime (5 minutes) elapses for the data of `key`
BecomeStale(key) ==
    /\ cache[key].hasData
    /\ ~cache[key].stale
    /\ cache' = [cache EXCEPT ![key].stale = TRUE]
    /\ UNCHANGED <<searchQuery, debouncedQuery, searchError, debounceRef, timers,
                   nextTimerId, nOps, ops, commits, manual, call, savedVars>>

\* clearResults without its clearTimeout
ClearPending_Skip(ts, ref) == ts

\* the timers after the tail of clearResults, given debounceRef.current = ref
ClearPending(ts, ref) == IF ref # 0 THEN ClearTimeout(ts, ref) ELSE ts

\* clearResults()
clearResults ==
    /\ nOps < MaxOps
    /\ nOps' = nOps + 1
    /\ searchQuery' = <<>>
    /\ debouncedQuery' = <<>>
    /\ cache' = setDebouncedQuery(cache, debouncedQuery, <<>>)
    /\ searchError' = NoError
    /\ timers' = ClearPending(timers, debounceRef)
    /\ ops' = LogOp("clear", <<>>)
    /\ UNCHANGED <<debounceRef, nextTimerId, commits, manual, call, savedVars>>

\* cacheTime elapses for the unobserved, idle query `key`: its entry is dropped
GarbageCollect(key) ==
    /\ key # debouncedQuery
    /\ cache[key].hasData
    /\ ~cache[key].fetching
    /\ cache' = [cache EXCEPT ![key] = NoEntry]
    /\ UNCHANGED <<searchQuery, debouncedQuery, searchError, debounceRef, timers,
                   nextTimerId, nOps, ops, commits, manual, call, savedVars>>

\* the window regains focus or the network reconnects: the observed query
\* is fetched again when its data is stale
FocusRefetch ==
    /\ Enabled(debouncedQuery)
    /\ cache[debouncedQuery].hasData
    /\ cache[debouncedQuery].stale
    /\ ~cache[debouncedQuery].fetching
    /\ cache' = [cache EXCEPT ![debouncedQuery].fetching = TRUE]
    /\ UNCHANGED <<searchQuery, debouncedQuery, searchError, debounceRef, timers,
                   nextTimerId, nOps, ops, commits, manual, call, savedVars>>

\* the failure object manualSearch builds for a rejected input
InvalidInputError(validation) ==
    [kind |-> "object", code |-> "INVALID_INPUT",
     message |-> IF validation.error # <<>> THEN validation.error
                 ELSE <<"Invalid input">>]

\* manualSearch asking the suggestion entry point instead
manualLookup_Suggest(query, o) == getSuggestions(query, o)

\* manualSearch's request: await geocodingService.geocodeLocation(query)
manualLookup(query, o) == geocodeLocation(query, o)

\* what a manualSearch call that passed validation returns or throws, its
\* request having the outcome o
manualSearchSettles(query, o) ==
    LET r == manualLookup(query, o)
    IN  IF r.tag = "throw" THEN r ELSE Ok(Slice(r.value, maxResults))

\* manualSearch never takes its validation branch
ManualRejects_Never(query) == FALSE

\* manualSearch's test of its input: !validation.isValid
ManualRejects(query) == ~validateLocationInput(query).isValid

\* a manualSearch call as the log keeps it; overlaps tells whether an earlier
\* call was still awaiting its response when this one was made
ManualCall(query, phase, result, requests) ==
    [text |-> query, phase |-> phase, outcome |-> NoOutcome,
     result |-> result, requests |-> requests,
     overlaps |-> \E i \in 1..Len(manual) : manual[i].phase = "awaiting"]

\* manualSearch(query), up to its first suspension or its end
ManualStart(query) ==
    /\ Len(manual) < MaxManual
    /\ nOps < MaxOps
    /\ nOps' = nOps + 1
    /\ ops' = LogOp("manual", query)
    /\ LET validation == validateLocationInput(query)
           rejected == manualLookup(query, NoOutcome)
       IN  IF ManualRejects(query)
           THEN /\ searchError' = InvalidInputError(validation)
                /\ manual' = Append(manual,
                       ManualCall(query, "done",
                                  Throw(InvalidInputError(validation)), 0))
           ELSE IF ~IssuesRequest(query)
           THEN /\ searchError' = rejected.error
                /\ manual' = Append(manual, ManualCall(query, "done", rejected, 0))
           ELSE /\ searchError' = NoError
                /\ manual' = Append(manual,
                       ManualCall(query, "awaiting", Ok(<<>>), 1))
    /\ UNCHANGED <<searchQuery, debouncedQuery, debounceRef, timers, nextTimerId,
                   cache, commits, call, savedVars>>

\* the request of the i-th manualSearch call completes with outcome o
ManualRespond(i, o) ==
    /\ i \in 1..Len(manual)
    /\ manual[i].phase = "awaiting"
    /\ LET r == manualSearchSettles(manual[i].text, o)
       IN  /\ searchError' = IF r.tag = "throw" THEN r.error ELSE searchError
           /\ manual' = [manual EXCEPT ![i].phase = "done",
                            ![i].outcome = o, ![i].result = r]
    /\ UNCHANGED <<searchQuery, debouncedQuery, debounceRef, timers, nextTimerId,
                   cache, nOps, ops, commits, call, savedVars>>

(***************************************************************************)
(* Saved locations: the LocationSearch component and localStorage          *)
(***************************************************************************)
\* localStorage.getItem of a key that was never set
NullItem == [present |-> FALSE, entries |-> <<>>]

\* convertToLocation(result): GeocodingResult -> Location
convertToLocation(result) ==
    [id |-> result.id, name |-> result.name, region |-> result.region,
     country |-> result.country, lat |-> result.lat, lon |-> result.lon]

PlaceNames == <<<<"a","b","c">>, <<"a","b","d">>>>

\* the places the user can toggle: one search result per coordinate pair,
\* and a second result, of another name, at the first coordinates
Places ==
    {convertToLocation(ToGeocodingResult(UpstreamRecord(PlaceNames[1], i))) :
        i \in 1..MaxPlaces}
    \cup {convertToLocation(ToGeocodingResult(UpstreamRecord(PlaceNames[2], 1)))}

\* the decimal numeral of a coordinate, and the number a numeral denotes
Coordinates == 0..(MaxPlaces + 1)

NumberToJSON(n) == ToString(n)

NumberFromJSON(text) == CHOOSE n \in Coordinates : ToString(n) = text

\* JSON.stringify(list): one object per entry, its properties in order
JSONStringify(list) ==
    [present |-> TRUE,
     entries |-> [i \in 1..Len(list) |->
                    <<list[i].id, list[i].name, list[i].region, list[i].country,
                      NumberToJSON(list[i].lat), NumberToJSON(list[i].lon)>>]]

\* JSON.parse(item)
JSONParse(item) ==
    [i \in 1..Len(item.entries) |->
        [id |-> item.entries[i][1], name |-> item.entries[i][2],
         region |-> item.entries[i][3], country |-> item.entries[i][4],
         lat |-> NumberFromJSON(item.entries[i][5]),
         lon |-> NumberFromJSON(item.entries[i][6])]]

\* the initial state of savedLocations: saved ? JSON.parse(saved) : []
loadSavedLocations(item) == IF item.present THEN JSONParse(item) ELSE <<>>

\* savedLocations.some(saved => saved.id === location.id)
isLocationSaved(list, location) ==
    \E i \in 1..Len(list) : list[i].id = location.id

\* savedLocations.filter(saved => saved.id !== location.id)
FilterOut(list, location) ==
    LET keep(saved) == saved.id # location.id
    IN  SelectSeq(list, keep)

\* a toggle that puts a newly saved place first
newSavedLocations_Prepend(list, location) ==
    IF isLocationSaved(list, location)
    THEN FilterOut(list, location)
    ELSE <<location>> \o list

\* a toggle that compares whole places instead of identifiers
newSavedLocations_ByValue(list, location) ==
    IF \E i \in 1..Len(list) : list[i] = location
    THEN FilterOut(list, location)
    ELSE Append(list, location)

\* newSavedLocations of toggleSavedLocation(location)
newSavedLocations(list, location) ==
    IF isLocationSaved(list, location)
    THEN FilterOut(list, location)
    ELSE Append(list, location)

\* toggleSavedLocation(location)
toggleSavedLocation(location) ==
    /\ Len(toggles) < MaxToggles
    /\ savedLocations' = newSavedLocations(savedLocations, location)
    /\ storage' = JSONStringify(newSavedLocations(savedLocations, location))
    /\ toggles' = Append(toggles, [location |-> location, before |-> savedLocations])
    /\ UNCHANGED <<ctlVars, call>>

NoDuplicateIds(list) ==
    \A i, j \in 1..Len(list) : list[i].id = list[j].id => i = j

\* the lists a previous session can have left in storage
StoredLists ==
    {list \in UNION {[1..n -> Places] : n \in 0..MaxPlaces} : NoDuplicateIds(list)}

\* the component has not been mounted and nothing is stored
NothingSaved ==
    /\ savedLocations = <<>>
    /\ storage = NullItem
    /\ toggles = <<>>

CtlInit ==
    /\ searchQuery = <<>>
    /\ debouncedQuery = <<>>
    /\ searchError = NoError
    /\ debounceRef = 0
    /\ timers = {}
    /\ nextTimerId = 1
    /\ cache = [k \in Keys |-> NoEntry]
    /\ nOps = 0
    /\ ops = <<>>
    /\ commits = <<>>
    /\ manual = <<>>

Init ==
    /\ CtlInit
    /\ call = IdleCall
    /\ NothingSaved

Next ==
    \/ \E q \in Queries : handleSetSearchQuery(q)
    \/ \E t \in timers : TimerFire(t)
    \/ \E k \in Keys : \E o \in Outcomes(trim(k)) : LookupRespond(k, o)
    \/ \E k \in Keys : BecomeStale(k)
    \/ clearResults
    \/ \E k \in Keys : GarbageCollect(k)
    \/ FocusRefetch
    \/ \E q \in ManualQueries : ManualStart(q)
    \/ \E i \in 1..Len(manual) : \E o \in Outcomes(trim(manual[i].text)) : ManualRespond(i, o)

Spec == Init /\ [][Next]_vars

(***************************************************************************)
(* The geocode client on its own: any text, any transport outcome          *)
(***************************************************************************)
InitClient ==
    /\ CtlInit
    /\ call = IdleCall
    /\ NothingSaved

NextClient ==
    \/ \E text \in ValidateInputs : ValidateCall(text)
    \/ \E text \in EntryInputs : \E hasOnError \in BOOLEAN :
           EntryStart(text, hasOnError)
    \/ \E o \in Outcomes(trim(call.text)) : EntryRespond(o)
    \/ \E text \in ValidateInputs : SearchStart(text)
    \/ \E o \in Outcomes(trim(call.text)) : SearchRespond(o)
    \/ \E text \in Texts : SuggestStart(text)
    \/ \E o \in Outcomes(trim(call.text)) : SuggestRespond(o)
    \/ CallReturn

SpecClient == InitClient /\ [][NextClient]_vars

(***************************************************************************)
(* Properties of the search-state controller (under Spec)                  *)
(***************************************************************************)
LastOp == ops[Len(ops)]

LongEnough(text) == Len(text) >= minSearchLength

\* C1: after a raw-query update shorter than the minimum search length, the
\* previously scheduled debounced lookup is cancelled and the debounced query
\* is empty: while the raw query is too short, no debounce timer is pending
\* (so no earlier text can be committed) and nothing is committed.
C1_ShortUpdateCancelsPending ==
    ~LongEnough(searchQuery) => (timers = {} /\ debouncedQuery = <<>>)

\* the session is exactly two query updates, both long enough, the second
\* made while the first one's debounce timer was still pending
TwoQuickUpdates ==
    /\ nOps = 2
    /\ ops[1].op = "update" /\ LongEnough(ops[1].text)
    /\ ops[2].op = "update" /\ LongEnough(ops[2].text)
    /\ ops[2].pending

\* C2: two updates, both long enough, the second within the debounce delay
\* of the first and nothing after it: until the timer fires nothing is
\* committed and exactly the second text is scheduled; once it has fired,
\* exactly one commit has occurred and it carries the second text.
C2_OnlyLatestTextCommitted ==
    TwoQuickUpdates =>
        \/ /\ commits = <<>>
           /\ \E t \in timers : timers = {t} /\ t.query = ops[2].text
        \/ /\ commits = <<ops[2].text>>
           /\ timers = {}

C2_Witness ==
    /\ TwoQuickUpdates
    /\ ops[1].text # ops[2].text
    /\ commits = <<ops[2].text>>
    /\ debouncedQuery = ops[2].text

\* the values a lookup for the query `key` can resolve to
ResponsesFor(key) == {queryFn(key, o) : o \in Outcomes(trim(key))}

\* C3: last-committed-wins: the exposed result list is always empty or a
\* response to the lookup for the currently committed debounced query.
C3_LastCommittedWins ==
    searchResults = <<>> \/ searchResults \in ResponsesFor(debouncedQuery)

\* a newer query is committed and still loading while the response to the
\* lookup of an older committed query has arrived with results
C3_Witness ==
    /\ Len(commits) = 2
    /\ commits[1] # commits[2]
    /\ debouncedQuery = commits[2]
    /\ ~cache[commits[2]].hasData
    /\ cache[commits[1]].hasData
    /\ cache[commits[1]].data # <<>>
    /\ searchResults = <<>>

\* C4: at most one debounce timer is pending in every reachable state.
C4_AtMostOneTimer == Cardinality(timers) <= 1

\* a debounce timer was rescheduled while the previous one was pending
C4_Witness ==
    /\ nOps >= 2
    /\ LastOp.op = "update"
    /\ LongEnough(LastOp.text)
    /\ LastOp.pending
    /\ Cardinality(timers) = 1

\* a step that is a call of clearResults
ClearStep == nOps' = nOps + 1 /\ ops'[Len(ops')].op = "clear"

\* C5: clear() leaves the raw query empty, the debounced query empty, the
\* failure slot absent and no debounce timer pending; and as long as clear()
\* is the last user operation, no timer is pending and nothing is committed.
C5_ClearResetsEverything ==
    /\ [][ClearStep =>
            /\ searchQuery' = <<>>
            /\ debouncedQuery' = <<>>
            /\ searchError' = NoError
            /\ timers' = {}]_vars
    /\ []((ops # <<>> /\ LastOp.op = "clear") =>
            (timers = {} /\ debouncedQuery = <<>> /\ searchQuery = <<>>))

\* clear() was called while a debounce timer was pending
C5_Witness ==
    /\ ops # <<>>
    /\ LastOp.op = "clear"
    /\ LastOp.pending
    /\ timers = {}
    /\ debounceRef # 0

(***************************************************************************)
(* Properties of the geocode client (under SpecClient)                     *)
(***************************************************************************)
SuggestDone == call.op = "suggest" /\ call.phase = "done"

SearchDone == call.op = "search" /\ call.phase = "done"

Failed(result, code) == result.tag = "throw" /\ result.error.code = code

\* geocodeLocation, called with the text of the finished call and meeting
\* the same transport outcome, fails
SearchWouldFail ==
    IF call.requests = 0 THEN InputRejected(call.text)
    ELSE geocodeLocation(call.text, call.outcome).tag = "throw"

\* C6: suggest never fails outward: for every text and every outcome of the
\* underlying search it resolves to a list, which is empty whenever search
\* would fail.
C6_SuggestNeverFails ==
    SuggestDone =>
        /\ call.result.tag = "ok"
        /\ SearchWouldFail => call.result.value = <<>>

\* a suggestion lookup whose request raised a transport exception
C6_Witness ==
    /\ SuggestDone
    /\ call.requests = 1
    /\ call.outcome.threw
    /\ call.result = Ok(<<>>)

\* C7: suggest on a text shorter than 3 returns the empty list, without a
\* failure and without a network request.
C7_ShortSuggestIsEmpty ==
    (call.op = "suggest" /\ Len(call.text) < 3) =>
        /\ call.phase = "done"
        /\ call.requests = 0
        /\ call.result = Ok(<<>>)

\* suggest on a two-character text that search itself would accept
C7_Witness ==
    /\ SuggestDone
    /\ Len(call.text) = 2
    /\ Len(trim(call.text)) = 2
    /\ call.requests = 0
    /\ call.result = Ok(<<>>)

\* C8: search on a text that is absent or whose trimmed length is < 2 fails
\* with kind invalid_input and issues no network request.
C8_InvalidInputRejected ==
    (call.op = "search" /\ call.phase # "idle"
        /\ (call.text = Absent \/ Len(trim(call.text)) < 2)) =>
        /\ call.phase = "done"
        /\ call.requests = 0
        /\ Failed(call.result, "INVALID_INPUT")

\* C9: on valid input the failure kind follows the transport outcome: every
\* non-success status (401, 429, any other) gives api_error, a raised
\* transport exception gives network_error.
C9_FailureKindByTransport ==
    (SearchDone /\ call.requests = 1) =>
        /\ call.outcome.threw => Failed(call.result, "NETWORK_ERROR")
        /\ (~call.outcome.threw /\ ~ResponseOk(call.outcome)) =>
                Failed(call.result, "API_ERROR")

\* C10: on valid input and a success status, an empty-list or non-list body
\* makes the call fail with kind no_results and a message containing the
\* query text; a non-empty list never gives no_results.
C10_NoResultsOnEmptyBody ==
    (SearchDone /\ call.requests = 1 /\ ~call.outcome.threw /\ ResponseOk(call.outcome)) =>
        /\ (call.outcome.body = "nonarray"
                \/ (call.outcome.body = "array" /\ call.outcome.items = <<>>)) =>
              /\ Failed(call.result, "NO_RESULTS")
              /\ Contains(call.result.error.message, call.text)
        /\ (call.outcome.body = "array" /\ call.outcome.items # <<>>) =>
              ~Failed(call.result, "NO_RESULTS")

(***************************************************************************)
(* The saved-location list on its own: any stored list, any toggles        *)
(***************************************************************************)
InitSaved ==
    /\ CtlInit
    /\ call = IdleCall
    /\ storage \in {NullItem} \cup {JSONStringify(list) : list \in StoredLists}
    /\ savedLocations = loadSavedLocations(storage)
    /\ toggles = <<>>

NextSaved == \E location \in Places : toggleSavedLocation(location)

SpecSaved == InitSaved /\ [][NextSaved]_vars

(***************************************************************************)
(* The two places where a result list is cut to maxResults, on their own:  *)
(* any query, any outcome, and response arrays longer than maxResults      *)
(***************************************************************************)
\* a success response whose body is an array of n records
ArrayOutcome(q, n) ==
    [threw |-> FALSE, status |-> 200, body |-> "array",
     items |-> UpstreamList(q, n)]

LongOutcomes(q) == Outcomes(q) \cup {ArrayOutcome(q, n) : n \in 0..MaxListLen}

\* the texts manualSearch lets through to its request
ValidManualQueries ==
    {q \in Queries \cup ManualQueries : validateLocationInput(q).isValid}

\* the debounced lookup for `key` runs to completion, its request (if one is
\* issued) having the outcome o
LookupCall(key, o) ==
    /\ call.phase = "idle"
    /\ call' = [IdleCall EXCEPT !.op = "lookup", !.text = key, !.phase = "done",
                                !.outcome = o, !.result = Ok(queryFn(key, o)),
                                !.requests = IF Enabled(key) THEN 1 ELSE 0]
    /\ UNCHANGED <<ctlVars, savedVars>>

\* manualSearch(query) on a valid input runs to completion, its request
\* having the outcome o
ManualCallSettles(query, o) ==
    /\ call.phase = "idle"
    /\ call' = [IdleCall EXCEPT !.op = "manual", !.text = query, !.phase = "done",
                                !.outcome = o,
                                !.result = manualSearchSettles(query, o),
                                !.requests = 1]
    /\ UNCHANGED <<ctlVars, savedVars>>

NextLists ==
    \/ \E k \in Keys : \E o \in LongOutcomes(trim(k)) : LookupCall(k, o)
    \/ \E q \in ValidManualQueries : \E o \in LongOutcomes(trim(q)) :
           ManualCallSettles(q, o)
    \/ CallReturn

SpecLists == InitClient /\ [][NextLists]_vars

(***************************************************************************)
(* Claims about manualSearch                                               *)
(***************************************************************************)
\* a step that is a call of manualSearch, and the call it logs
ManualStartStep == Len(manual') = Len(manual) + 1

NewManual == manual'[Len(manual')]

\* C11: a manual search on an input that validate() rejects records a failure
\* of kind invalid_input in the failure slot, signals that same failure to
\* the caller, and issues no network request.
C11_InvalidManualSearchRejected ==
    /\ [][(ManualStartStep /\ ~validateLocationInput(NewManual.text).isValid) =>
            /\ searchError' = NewManual.result.error
            /\ searchError'.code = "INVALID_INPUT"]_vars
    /\ [](\A i \in 1..Len(manual) :
            ~validateLocationInput(manual[i].text).isValid =>
                /\ manual[i].phase = "done"
                /\ manual[i].requests = 0
                /\ Failed(manual[i].result, "INVALID_INPUT"))

\* a manual search of a text with a dangerous pattern was rejected
C11_Witness ==
    \E i \in 1..Len(manual) :
        /\ Len(manual[i].text) >= 2
        /\ ~validateLocationInput(manual[i].text).isValid
        /\ Failed(manual[i].result, "INVALID_INPUT")
        /\ searchError = manual[i].result.error

\* a step in which the i-th manualSearch call completes
ManualRespondStep(i) ==
    /\ i \in 1..Len(manual)
    /\ manual[i].phase = "awaiting"
    /\ manual'[i].phase = "done"

\* C12: a manual search on a valid input calls search, and failures are not
\* swallowed: whenever search fails, the failure slot holds that same failure
\* when the call completes and the same failure is signalled to the caller.
C12_ManualSearchFailureSurfaces ==
    /\ [][\A i \in 1..Len(manual) :
            (/\ ManualRespondStep(i)
             /\ geocodeLocation(manual[i].text, manual'[i].outcome).tag = "throw") =>
                /\ manual'[i].result =
                       geocodeLocation(manual[i].text, manual'[i].outcome)
                /\ searchError' = manual'[i].result.error
                /\ searchError' # NoError]_vars
    /\ [](\A i \in 1..Len(manual) :
            validateLocationInput(manual[i].text).isValid =>
                manual[i].requests = 1)

\* a manual search of a valid text failed and its failure is in the slot
C12_Witness ==
    \E i \in 1..Len(manual) :
        /\ validateLocationInput(manual[i].text).isValid
        /\ manual[i].phase = "done"
        /\ manual[i].outcome.status = 500
        /\ manual[i].result.tag = "throw"
        /\ searchError = manual[i].result.error

\* C14: a manual search on a valid input made while a debounce timer is
\* pending issues its request at once, and neither cancels nor reschedules
\* the timer nor changes the raw or the debounced query.
C14_ManualSearchBypassesDebounce ==
    [][(/\ ManualStartStep
        /\ validateLocationInput(NewManual.text).isValid
        /\ timers # {}) =>
            /\ NewManual.requests = 1
            /\ NewManual.phase = "awaiting"
            /\ timers' = timers
            /\ debounceRef' = debounceRef
            /\ searchQuery' = searchQuery
            /\ debouncedQuery' = debouncedQuery
            /\ commits' = commits]_vars

\* a manual search was made while a debounce timer was pending; its request
\* is in flight and the timer has not fired
C14_Witness ==
    /\ manual # <<>>
    /\ LastOp.op = "manual"
    /\ LastOp.pending
    /\ manual[Len(manual)].phase = "awaiting"
    /\ manual[Len(manual)].requests = 1
    /\ commits = <<>>
    /\ timers # {}
\* C13: the result list of a debounced suggestion lookup, and of a
\* successful manual search, is the first min(n, maxResults) elements, in
\* order, of the n-element list the geocode client returned; it never has
\* more than maxResults entries.
C13_ResultsTruncated ==
    (call.op \in {"lookup", "manual"} /\ call.phase = "done"
        /\ call.result.tag = "ok") =>
        LET client == IF call.op = "lookup"
                      THEN getSuggestions(call.text, call.outcome)
                      ELSE geocodeLocation(call.text, call.outcome)
            n == Len(client.value)
            k == IF n < maxResults THEN n ELSE maxResults
        IN  /\ client.tag = "ok"
            /\ Len(call.result.value) = k
            /\ \A i \in 1..k : call.result.value[i] = client.value[i]
            /\ Len(call.result.value) <= maxResults

\* the geocode client returned more than maxResults results to a debounced
\* lookup, and the lookup's list is cut
C13_Witness ==
    /\ call.op = "lookup"
    /\ call.phase = "done"
    /\ Len(getSuggestions(call.text, call.outcome).value) > maxResults
    /\ Len(call.result.value) = maxResults
(***************************************************************************)
(* Claims about the debounced suggestion lookups                           *)
(***************************************************************************)
\* a step in which a debounce timer's callback commits its text
CommitStep == Len(commits') = Len(commits) + 1

NewCommit == commits'[Len(commits')]

\* the number of suggestion lookups (fetches of queryFn) a step starts
LookupsStarted ==
    Cardinality({k \in Keys : ~cache[k].fetching /\ cache'[k].fetching})

\* a step in which the fetch of a suggestion lookup settles
LookupSettleStep == \E k \in Keys : cache[k].fetching /\ ~cache'[k].fetching

Committed == {commits[i] : i \in 1..Len(commits)}

\* C18 as claimed: every debounced commit of a query of at least the minimum
\* length triggers exactly one suggestion lookup, not zero and not more than
\* one, also when the same text was committed earlier in the session.
C18_EveryCommitOneLookup ==
    [][(CommitStep /\ Len(NewCommit) >= minSearchLength) =>
            LookupsStarted = 1]_vars

\* C18, amended: a debounced commit of a query of at least the minimum length
\* triggers at most one suggestion lookup, through the geocode client's
\* suggest: exactly one when that text was not committed earlier in the
\* session, none when it is the debounced query already; and the controller
\* never retries: the step in which a lookup settles starts no lookup.
C18_CommitStartsAtMostOneLookup ==
    /\ [][(CommitStep /\ Len(NewCommit) >= minSearchLength) =>
            /\ LookupsStarted <= 1
            /\ NewCommit \notin Committed =>
                   (LookupsStarted = 1 /\ cache'[NewCommit].fetching)
            /\ NewCommit = debouncedQuery => LookupsStarted = 0]_vars
    /\ [][LookupSettleStep => LookupsStarted = 0]_vars
    /\ [](\A k \in Keys : \A o \in Outcomes(trim(k)) :
            Len(k) >= minSearchLength =>
                queryFn(k, o) = Slice(getSuggestions(k, o).value, maxResults))

\* the text that is the debounced query already was committed again, after
\* its lookup had settled, and no lookup is in flight
C18_Witness ==
    /\ Len(commits) = 2
    /\ commits[1] = commits[2]
    /\ debouncedQuery = commits[2]
    /\ cache[debouncedQuery].hasData
    /\ \A k \in Keys : ~cache[k].fetching

\* C19: failures of suggestion lookups never reach the failure slot: the
\* slot is absent or holds the failure of a manual search; the step in which
\* a lookup settles leaves the slot unchanged; and a lookup whose search
\* fails yields the empty list.
C19_LookupFailuresStayOutOfSlot ==
    /\ [](\/ searchError = NoError
          \/ \E i \in 1..Len(manual) :
                /\ manual[i].result.tag = "throw"
                /\ manual[i].result.error = searchError)
    /\ [][LookupSettleStep => searchError' = searchError]_vars
    /\ [](\A k \in Keys : \A o \in Outcomes(trim(k)) :
            geocodeLocation(k, o).tag = "throw" =>
                /\ queryFnSettles(k, o).tag = "ok"
                /\ queryFnSettles(k, o).value = <<>>)

\* the lookup of the committed query came back failed: its list is empty,
\* no manual search was made and the failure slot is absent
C19_Witness ==
    /\ manual = <<>>
    /\ Len(debouncedQuery) >= minSearchLength
    /\ cache[debouncedQuery].hasData
    /\ cache[debouncedQuery].data = <<>>
    /\ searchError = NoError

(***************************************************************************)
(* Claims about validateLocationInput                                      *)
(***************************************************************************)
\* C17: validate(text) returns invalid exactly when the text is absent, or
\* its trimmed length is below 2 or above 100, or the trimmed text matches
\* one of the four dangerous patterns whatever the case of its letters; it
\* returns valid otherwise, trimmed lengths of exactly 2 and exactly 100
\* included.
C17_ValidateVerdict ==
    (call.op = "validate" /\ call.phase = "done") =>
        LET expectInvalid ==
                IF call.text = Absent THEN TRUE
                ELSE \/ Len(trim(call.text)) < 2
                     \/ Len(trim(call.text)) > 100
                     \/ trim(call.text) \in DangerousSamples
        IN  /\ call.validation.isValid = ~expectInvalid
            /\ call.validation.isValid \in BOOLEAN
            /\ ~call.validation.isValid => call.validation.error # <<>>

\* a text of trimmed length exactly 100 was validated and accepted
C17_Witness ==
    /\ call.op = "validate"
    /\ call.phase = "done"
    /\ Len(call.text) > Len(trim(call.text))
    /\ Len(trim(call.text)) = 100
    /\ call.validation.isValid

\* C20: validation is at least as strict as the client's own precondition:
\* for every text that validate() accepts, search(text) is not rejected
\* without a request and never fails with kind invalid_input; when it fails,
\* it fails with kind no_results, api_error or network_error.
C20_ValidatedSearchFailureKinds ==
    (SearchDone /\ validateLocationInput(call.text).isValid) =>
        /\ call.requests = 1
        /\ ~Failed(call.result, "INVALID_INPUT")
        /\ call.result.tag = "throw" =>
               call.result.error.code \in {"NO_RESULTS", "API_ERROR", "NETWORK_ERROR"}
(***************************************************************************)
(* Claims about the saved locations                                        *)
(***************************************************************************)
\* the last two toggles were of the same place
ToggledTwice ==
    /\ Len(toggles) >= 2
    /\ toggles[Len(toggles) - 1].location = toggles[Len(toggles)].location

\* the place toggled last, and the saved list before the last two toggles
Toggled == toggles[Len(toggles)].location

Original == toggles[Len(toggles) - 1].before

\* C15 as claimed: toggling the same place twice in succession returns the
\* saved list to its original contents and order, whether the place was
\* initially unsaved or saved at any position.
C15_DoubleToggleRestoresList ==
    ToggledTwice => savedLocations = Original

\* C15, amended: toggling the same place twice in succession restores the
\* original list, contents and order, when no entry had the place's
\* identifier; when one had, the other entries keep their order and the
\* toggled place is the last entry.
C15_DoubleToggleMovesToEnd ==
    ToggledTwice =>
        LET others == FilterOut(Original, Toggled)
        IN  IF \A i \in 1..Len(Original) : Original[i].id # Toggled.id
            THEN savedLocations = Original
            ELSE /\ Len(savedLocations) = Len(others) + 1
                 /\ \A i \in 1..Len(others) : savedLocations[i] = others[i]
                 /\ savedLocations[Len(savedLocations)] = Toggled

\* a place saved first in a list of several was toggled twice and is now last
C15_Witness ==
    /\ ToggledTwice
    /\ Len(Original) >= 2
    /\ Original[1] = Toggled
    /\ savedLocations[Len(savedLocations)] = Toggled
    /\ savedLocations # Original

\* C16: starting from a stored list with no duplicate identifiers, after any
\* toggles the saved list has no two entries with the same identifier, and
\* the list held in storage is the saved list in memory.
C16_NoDuplicatesAndPersisted ==
    /\ \A i \in 1..Len(savedLocations) : \A j \in 1..Len(savedLocations) :
          i # j => savedLocations[i].id # savedLocations[j].id
    /\ loadSavedLocations(storage) = savedLocations
    /\ toggles # <<>> =>
          (storage.present /\ Len(storage.entries) = Len(savedLocations))

\* a place was toggled while another place with the same identifier was saved
C16_Witness ==
    /\ toggles # <<>>
    /\ \E i \in 1..Len(toggles[Len(toggles)].before) :
          /\ toggles[Len(toggles)].before[i].id = Toggled.id
          /\ toggles[Len(toggles)].before[i] # Toggled
    /\ savedLocations # <<>>
    /\ storage = JSONStringify(savedLocations)
(***************************************************************************)
(* Claims about handleManualLocationEntry                                  *)
(***************************************************************************)
EntryDone == call.op = "entry" /\ call.phase = "done"

\* C21: each call of handleManualLocationEntry made with both callbacks, for
\* every input and every outcome of the client, never rejects and invokes
\* exactly one callback, once: onSuccess, with the first element of the
\* search result, when the search succeeds, onError otherwise; and on an
\* invalid input no network request is issued.
C21_ExactlyOneCallback ==
    (EntryDone /\ call.hasOnError) =>
        LET search == geocodeLocation(call.text, call.outcome)
            succeeds == /\ validateLocationInput(call.text).isValid
                        /\ search.tag = "ok"
                        /\ search.value # <<>>
        IN  /\ call.result.tag = "ok"
            /\ Len(call.callbacks) = 1
            /\ call.callbacks[1].name = IF succeeds THEN "onSuccess" ELSE "onError"
            /\ succeeds => call.callbacks[1].arg = search.value[1]
            /\ ~validateLocationInput(call.text).isValid => call.requests = 0

(***************************************************************************)
(* Claims about overlapping manual searches                                *)
(***************************************************************************)
LastManual == manual[Len(manual)]

\* every manualSearch call has completed, the last one was made while an
\* earlier one was awaiting its response, and no user operation followed it
OverlappingManualsDone ==
    /\ Len(manual) >= 2
    /\ \A i \in 1..Len(manual) : manual[i].phase = "done"
    /\ LastManual.overlaps
    /\ LastOp.op = "manual"

\* C22: when manual searches overlap, the failure slot after all of them
\* have completed reflects the most recently started one: it is absent if
\* that search succeeded, and holds that search's failure if it failed; the
\* failure of an earlier-started search does not remain in the slot.
C22_SlotReflectsLatestManual ==
    OverlappingManualsDone =>
        searchError = IF LastManual.result.tag = "ok" THEN NoError
                      ELSE LastManual.result.error
====
